---- MODULE Spec2Model ----
(***************************************************************************)
(* A model of the two cores of samply:                                     *)
(*   - TaskProfiler (src/perfrecord/src/task_profiler.rs): the per-process *)
(*     sampling controller, its thread and library bookkeeping, and the    *)
(*     assembly of the profile;                                            *)
(*   - Addr2LineContext (src/lib/src/windows/addr2line.rs): the PDB        *)
(*     address -> inline-expanded frame list lookup.                       *)
(* Spec is the TaskProfiler session; SpecPdb applies find_frames to a      *)
(* bounded family of debug-data snapshots.                                 *)
(***************************************************************************)
EXTENDS Integers, Sequences, FiniteSets, TLC

\* ------------------------------------------------------------------ bounds
\* instants are 0..MaxTime
MaxTime == 3
\* at most MaxSamplers ThreadProfiler values are constructed in a session
MaxSamplers == 3
\* at most MaxLibs libraries are recorded in a session
MaxLibs == 2
\* at most MaxDelta modifications are reported by one check_for_changes
MaxDelta == 2
\* into_profile receives at most MaxSubtasks subtasks
MaxSubtasks == 1
\* a debug database holds at most MaxSyms symbol records in all
MaxSyms == 3
\* find_frames is asked about the addresses 0..MaxAddress
MaxAddress == 2
\* a line-record sequence handed to the line search has at most MaxLines records
MaxLines == 3

\* ------------------------------------------------------------------ values
\* Option<T> is a sequence of length 0 (None) or 1 (Some(x)).
NoneOpt == << >>
Some(x) == << x >>

\* KernelError: the three variants the code names, and "Failure" for every other.
KernelErrors == {"InvalidArgument", "MachSendInvalidDest", "Terminated", "Failure"}

\* the thread ports (thread_act_t names) the kernel hands out
Handles == {1, 2}
Times == 0 .. MaxTime
\* the constructor's `now`
StartTimes == {1}

\* DyldInfo values the module tracker can report.
DyldInfos ==
  { [file |-> <<"usr", "a">>, uuid |-> Some(11), arch |-> Some(21), address |-> 0, vmsize |-> 2, is_executable |-> FALSE],
    [file |-> <<"usr", "b">>, uuid |-> NoneOpt,  arch |-> Some(22), address |-> 2, vmsize |-> 3, is_executable |-> TRUE],
    [file |-> <<"opt", "c">>, uuid |-> Some(13), arch |-> NoneOpt,  address |-> 5, vmsize |-> 1, is_executable |-> TRUE] }

\* Modification::Added(lib) | Modification::Removed(lib)
Modifications == [kind : {"Added", "Removed"}, lib : DyldInfos]

\* all sequences over S of length at most n
RECURSIVE SeqsUpTo(_, _)
SeqsUpTo(S, n) ==
  IF n = 0 THEN { << >> }
  ELSE LET shorter == SeqsUpTo(S, n - 1)
       IN  shorter \cup { Append(s, x) : s \in { t \in shorter : Len(t) = n - 1 }, x \in S }

Range(s) == { s[i] : i \in DOMAIN s }

Distinct(s) == \A i, j \in DOMAIN s : i # j => s[i] # s[j]

\* every ordering of the finite set S
Orderings(S) == { s \in [1 .. Cardinality(S) -> S] : Distinct(s) }

\* what task_threads can return: a list of distinct thread ports
ThreadLists == { s \in SeqsUpTo(Handles, Cardinality(Handles)) : Distinct(s) }

\* ------------------------------------------------------------------ state
VARIABLES
  start_time,      \* TaskProfiler.start_time
  first_act,       \* history: the first thread of the constructor's thread
                   \* enumeration, if it listed any
  end_time,        \* TaskProfiler.end_time : Option<Instant>
  live_threads,    \* TaskProfiler.live_threads : thread_act -> ThreadProfiler
  dead_threads,    \* TaskProfiler.dead_threads : Vec<ThreadProfiler>
  libs,            \* TaskProfiler.libs : Vec<DyldInfo>
  executable_lib,  \* TaskProfiler.executable_lib : Option<DyldInfo>
  created,         \* number of ThreadProfiler values constructed so far
  clock,           \* the latest instant handed to the TaskProfiler
  phase,           \* "active", or "consumed" once into_profile has taken self
  pc,              \* the sampling driver: "driver" between calls, "returned"
                   \* while it holds the result of a sample call
  call,            \* the last call: its name, inputs and return value (changes
                   \* is the module tracker's answer, sampled the samplers whose
                   \* sample(now) the call invoked, repeat whether a
                   \* notify_dead directly follows one with the same end_time)
  profile,         \* Option<ProfileBuilder>: what into_profile returned
  reported,        \* history: the libraries the module tracker has reported
                   \* as Added and as Removed so far
  notified,        \* history: the argument of the last notify_dead call, if any
  pdb,             \* the debug-data snapshot find_frames reads
  query,           \* the last find_frames call: address and result
  search           \* the last find_line_info_containing_address_no_size call:
                   \* its arguments and result

taskVars == << start_time, first_act, end_time, live_threads, dead_threads, libs,
               executable_lib, created, clock, phase, pc, call, profile, reported,
               notified >>
pdbVars == << pdb, query, search >>
vars == << taskVars, pdbVars >>

\* ------------------------------------------------------------------ TaskProfiler
\* ThreadProfiler::new(task, pid, start, thread_act, now, is_main) when it
\* yields Some: a sampler with its own identity, not yet notified of death.
\* deaths lists the arguments of the notify_dead calls it has received.
ThreadProfiler_new(id, thread_act, is_main) ==
  [id |-> id, thread_act |-> thread_act, is_main |-> is_main, deaths |-> << >>]

\* ThreadProfiler::notify_dead(end_time)
ThreadProfiler_notify_dead(thread, t) ==
  [thread EXCEPT !.deaths = Append(@, t)]

\* ThreadProfiler::into_profile_thread()
into_profile_thread(thread) ==
  [sampler |-> thread.id, tid |-> thread.thread_act, is_main |-> thread.is_main,
   end |-> thread.deaths]

\* HashMap::insert / Entry::insert
MapInsert(map, k, v) == [x \in (DOMAIN map) \cup {k} |-> IF x = k THEN v ELSE map[x]]

\* HashMap::remove
MapRemove(map, k) == [x \in (DOMAIN map) \ {k} |-> map[x]]

EmptyMap == [x \in {} |-> 0]

\* mutant of is_main: the flag goes to the second enumerated thread
is_main_second(i) == i = 2

\* TaskProfiler::new, line 66: is_main = i == 0, for the thread at position i
\* of the enumeration (positions count from 1 here)
is_main(i) == i = 1

\* TaskProfiler::new, lines 62-70: the first enumerated thread is flagged main;
\* a thread whose ThreadProfiler::new yields None gets no sampler.
\* profileable is the set of enumerated threads for which it yields Some.
RECURSIVE NewLiveThreads(_, _, _, _, _)
NewLiveThreads(thread_acts, profileable, i, live, n) ==
  IF i > Len(thread_acts) THEN [live |-> live, created |-> n]
  ELSE IF thread_acts[i] \in profileable
       THEN NewLiveThreads(thread_acts, profileable, i + 1,
              MapInsert(live, thread_acts[i], ThreadProfiler_new(n + 1, thread_acts[i], is_main(i))),
              n + 1)
       ELSE NewLiveThreads(thread_acts, profileable, i + 1, live, n)

\* mutant of ApplyChanges: a Removed delta takes the library out of libs
RECURSIVE ApplyChangesForgets(_, _, _)
ApplyChangesForgets(changes, ls, exe) ==
  IF changes = << >> THEN [libs |-> ls, executable_lib |-> exe]
  ELSE LET change == Head(changes)
       IN  IF change.kind = "Added"
           THEN ApplyChangesForgets(Tail(changes), Append(ls, change.lib),
                  IF exe = NoneOpt /\ change.lib.is_executable THEN Some(change.lib) ELSE exe)
           ELSE ApplyChangesForgets(Tail(changes),
                  SelectSeq(ls, LAMBDA l : l # change.lib), exe)

\* mutant of ApplyChanges: an Added library is inserted at the front of libs
RECURSIVE ApplyChangesPrepends(_, _, _)
ApplyChangesPrepends(changes, ls, exe) ==
  IF changes = << >> THEN [libs |-> ls, executable_lib |-> exe]
  ELSE LET change == Head(changes)
       IN  IF change.kind = "Added"
           THEN ApplyChangesPrepends(Tail(changes), << change.lib >> \o ls,
                  IF exe = NoneOpt /\ change.lib.is_executable THEN Some(change.lib) ELSE exe)
           ELSE ApplyChangesPrepends(Tail(changes), ls, exe)

\* mutant of ApplyChanges: every executable Added library replaces executable_lib
RECURSIVE ApplyChangesLastExe(_, _, _)
ApplyChangesLastExe(changes, ls, exe) ==
  IF changes = << >> THEN [libs |-> ls, executable_lib |-> exe]
  ELSE LET change == Head(changes)
       IN  IF change.kind = "Added"
           THEN ApplyChangesLastExe(Tail(changes), Append(ls, change.lib),
                  IF change.lib.is_executable THEN Some(change.lib) ELSE exe)
           ELSE ApplyChangesLastExe(Tail(changes), ls, exe)

\* sample_impl, lines 103-116: apply the module deltas in order.
RECURSIVE ApplyChanges(_, _, _)
ApplyChanges(changes, ls, exe) ==
  IF changes = << >> THEN [libs |-> ls, executable_lib |-> exe]
  ELSE LET change == Head(changes)
       IN  IF change.kind = "Added"
           THEN ApplyChanges(Tail(changes), Append(ls, change.lib),
                  IF exe = NoneOpt /\ change.lib.is_executable THEN Some(change.lib) ELSE exe)
           ELSE ApplyChanges(Tail(changes), ls, exe)

\* mutant of UnwrapChanges: the tracker's answer is discarded
UnwrapChangesDrops(res) == << >>

\* sample_impl, lines 99-102: a failed check_for_changes is an empty delta.
UnwrapChanges(res) == IF res.ok THEN res.changes ELSE << >>

\* mutant of MapEnumErr: the enumeration's error is passed on untranslated
MapEnumErrUntranslated(err) == err

\* sample_impl, lines 119-122: the enumeration's error as sample_impl sees it.
MapEnumErr(err) == IF err = "InvalidArgument" THEN "Terminated" ELSE err

\* What happens to one enumerated thread: the result of ThreadProfiler::new
\* (consulted only when the map has no entry for it) and of thread.sample(now).
NoFault == [new |-> "Some", sample |-> "alive"]
ThreadOutcomes(errs) ==
  { [new |-> "Some", sample |-> r] : r \in {"alive", "exited"} \cup errs }
    \cup { [new |-> r, sample |-> "alive"] : r \in {"None"} \cup errs }

\* mutant of SampleThreads: a sampler whose sample(now) fails is taken out of
\* the map
RECURSIVE SampleThreadsDropsFailing(_, _, _, _, _, _, _)
SampleThreadsDropsFailing(thread_acts, outs, i, live, n, now_live, sampled) ==
  IF i > Len(thread_acts)
  THEN [live |-> live, created |-> n, now_live |-> now_live, sampled |-> sampled,
        err |-> "ok", step |-> "none"]
  ELSE LET thread_act == thread_acts[i]
           o == outs[i]
           alive == IF o.sample = "alive" THEN now_live \cup {thread_act} ELSE now_live
       IN  IF thread_act \in DOMAIN live
           THEN \* Entry::Occupied
                IF o.sample \in KernelErrors
                THEN [live |-> MapRemove(live, thread_act), created |-> n, now_live |-> now_live,
                      sampled |-> sampled \cup {live[thread_act].id},
                      err |-> o.sample, step |-> "sample"]
                ELSE SampleThreadsDropsFailing(thread_acts, outs, i + 1, live, n, alive,
                                   sampled \cup {live[thread_act].id})
           ELSE \* Entry::Vacant
                IF o.new \in KernelErrors
                THEN [live |-> live, created |-> n, now_live |-> now_live,
                      sampled |-> sampled, err |-> o.new, step |-> "new"]
                ELSE IF o.new = "None"
                THEN SampleThreadsDropsFailing(thread_acts, outs, i + 1, live, n, now_live, sampled)
                ELSE LET inserted == MapInsert(live, thread_act,
                                       ThreadProfiler_new(n + 1, thread_act, FALSE))
                     IN  IF o.sample \in KernelErrors
                         THEN [live |-> inserted, created |-> n + 1, now_live |-> now_live,
                               sampled |-> sampled \cup {n + 1},
                               err |-> o.sample, step |-> "sample"]
                         ELSE SampleThreadsDropsFailing(thread_acts, outs, i + 1, inserted, n + 1, alive,
                                            sampled \cup {n + 1})

\* sample_impl, lines 126-149: the loop over the enumerated threads, from
\* position i on. err is "ok" or the KernelError that `?` returned; sampled
\* collects the samplers whose sample(now) was called (history only).
RECURSIVE SampleThreads(_, _, _, _, _, _, _)
SampleThreads(thread_acts, outs, i, live, n, now_live, sampled) ==
  IF i > Len(thread_acts)
  THEN [live |-> live, created |-> n, now_live |-> now_live, sampled |-> sampled,
        err |-> "ok", step |-> "none"]
  ELSE LET thread_act == thread_acts[i]
           o == outs[i]
           alive == IF o.sample = "alive" THEN now_live \cup {thread_act} ELSE now_live
       IN  IF thread_act \in DOMAIN live
           THEN \* Entry::Occupied
                IF o.sample \in KernelErrors
                THEN [live |-> live, created |-> n, now_live |-> now_live,
                      sampled |-> sampled \cup {live[thread_act].id},
                      err |-> o.sample, step |-> "sample"]
                ELSE SampleThreads(thread_acts, outs, i + 1, live, n, alive,
                                   sampled \cup {live[thread_act].id})
           ELSE \* Entry::Vacant
                IF o.new \in KernelErrors
                THEN [live |-> live, created |-> n, now_live |-> now_live,
                      sampled |-> sampled, err |-> o.new, step |-> "new"]
                ELSE IF o.new = "None"
                THEN SampleThreads(thread_acts, outs, i + 1, live, n, now_live, sampled)
                ELSE LET inserted == MapInsert(live, thread_act,
                                       ThreadProfiler_new(n + 1, thread_act, FALSE))
                     IN  IF o.sample \in KernelErrors
                         THEN [live |-> inserted, created |-> n + 1, now_live |-> now_live,
                               sampled |-> sampled \cup {n + 1},
                               err |-> o.sample, step |-> "sample"]
                         ELSE SampleThreads(thread_acts, outs, i + 1, inserted, n + 1, alive,
                                            sampled \cup {n + 1})

\* mutant of DeadSet: the difference taken the other way round
DeadSetReversed(previously_live_threads, now_live_threads) ==
  now_live_threads \ previously_live_threads

\* sample_impl, line 150
DeadSet(previously_live_threads, now_live_threads) ==
  previously_live_threads \ now_live_threads

\* mutant of TakeDead: the sampler is read (get) and left in the map
TakeDeadKeeps(live, thread_act) == live

\* sample_impl, line 152: the map after a dead thread's sampler is taken out
TakeDead(live, thread_act) == MapRemove(live, thread_act)

\* mutant of MoveDead: the samplers are moved and not notified
RECURSIVE MoveDeadUnnotified(_, _, _, _)
MoveDeadUnnotified(order, live, dead, now) ==
  IF order = << >> THEN [live |-> live, dead |-> dead]
  ELSE MoveDeadUnnotified(Tail(order), MapRemove(live, Head(order)),
                          Append(dead, live[Head(order)]), now)

\* sample_impl, lines 151-155: move the samplers of `order` (the iteration
\* order of the set difference) to dead_threads, notifying each.
RECURSIVE MoveDead(_, _, _, _)
MoveDead(order, live, dead, now) ==
  IF order = << >> THEN [live |-> live, dead |-> dead]
  ELSE LET thread_act == Head(order)
           thread == ThreadProfiler_notify_dead(live[thread_act], now)
       IN  MoveDead(Tail(order), TakeDead(live, thread_act), Append(dead, thread), now)

\* sample, lines 89-94
SampleRet(err) ==
  IF err = "ok" THEN "true"
  ELSE IF err \in {"MachSendInvalidDest", "Terminated"} THEN "false"
  ELSE err

\* outs says nothing about threads the loop does not reach or steps it skips
Canonical(thread_acts, outs, live) ==
  \A i \in DOMAIN thread_acts :
    /\ (thread_acts[i] \in DOMAIN live => outs[i].new = "Some")
    /\ (\E j \in 1 .. (i - 1) : outs[j].new \in KernelErrors \/ outs[j].sample \in KernelErrors)
         => outs[i] = NoFault

NoCall == [op |-> "new", now |-> 0, ret |-> "-", tracker_ok |-> TRUE,
           step |-> "none", err |-> "ok", acts |-> << >>, now_live |-> {},
           changes |-> << >>, sampled |-> {}, repeat |-> FALSE]

NoPdb == [modules |-> << >>, malformed |-> "none"]
NoQuery == [asked |-> FALSE, address |-> 0, ok |-> TRUE, frames |-> << >>]
NoSearch == [asked |-> FALSE, lines |-> << >>, address |-> 0, outer_end_rva |-> 0,
             found |-> NoneOpt]

\* the state TaskProfiler::new returns (its Err returns construct nothing)
Init ==
  /\ start_time \in StartTimes
  /\ clock = start_time
  /\ end_time = NoneOpt
  /\ \E thread_acts \in ThreadLists :
       \E profileable \in SUBSET Range(thread_acts) :
         LET r == NewLiveThreads(thread_acts, profileable, 1, EmptyMap, 0)
         IN  /\ live_threads = r.live
             /\ created = r.created
             /\ first_act = IF thread_acts = << >> THEN NoneOpt ELSE Some(thread_acts[1])
  /\ dead_threads = << >>
  /\ libs = << >>
  /\ executable_lib = NoneOpt
  /\ phase = "active"
  /\ pc = "driver"
  /\ call = NoCall
  /\ profile = NoneOpt
  /\ reported = [added |-> {}, removed |-> {}]
  /\ notified = NoneOpt
  /\ pdb = NoPdb
  /\ query = NoQuery
  /\ search = NoSearch

\* what DyldInfoManager::check_for_changes can return: a failure, or a delta
\* of at most n modifications
ChangeResults(n) ==
  { [ok |-> TRUE, changes |-> c] : c \in SeqsUpTo(Modifications, n) }
    \cup { [ok |-> FALSE, changes |-> << >>] }

\* what get_thread_list can return
ThreadListResults ==
  { [err |-> "ok", acts |-> a] : a \in ThreadLists }
    \cup { [err |-> e, acts |-> << >>] : e \in KernelErrors }

\* the libraries a tracker answer reports with the given kind (history only)
Reported(res, kind) ==
  { res.changes[i].lib : i \in { j \in DOMAIN res.changes : res.changes[j].kind = kind } }

NumAdded(changes) == Cardinality({ i \in DOMAIN changes : changes[i].kind = "Added" })

\* TaskProfiler::sample(now), with sample_impl inlined. The module tracker
\* answers with one of `results`, get_thread_list with one of `lists`; a
\* failing ThreadProfiler call fails with one of `errs`.
SampleWith(results, lists, errs) ==
  /\ phase = "active"
  /\ pc = "driver"
  /\ pc' = "returned"
  /\ clock < MaxTime
  /\ \E res \in results, tl \in lists :
       LET now == clock + 1
           changes == UnwrapChanges(res)
           applied == ApplyChanges(changes, libs, executable_lib)
       IN  /\ Len(libs) + NumAdded(changes) <= MaxLibs
           /\ libs' = applied.libs
           /\ reported' = [added |-> reported.added \cup Reported(res, "Added"),
                           removed |-> reported.removed \cup Reported(res, "Removed")]
           /\ executable_lib' = applied.executable_lib
           /\ clock' = now
           /\ IF tl.err # "ok"
              THEN /\ call' = [op |-> "sample", now |-> now, ret |-> SampleRet(MapEnumErr(tl.err)),
                               tracker_ok |-> res.ok, step |-> "task_threads", err |-> tl.err,
                               acts |-> << >>, now_live |-> {},
                               changes |-> res.changes, sampled |-> {}, repeat |-> FALSE]
                   /\ UNCHANGED << live_threads, dead_threads, created >>
              ELSE \E outs \in [DOMAIN tl.acts -> ThreadOutcomes(errs)] :
                     /\ Canonical(tl.acts, outs, live_threads)
                     /\ LET r == SampleThreads(tl.acts, outs, 1, live_threads, created, {}, {})
                        IN  /\ r.created <= MaxSamplers
                            /\ created' = r.created
                            /\ call' = [op |-> "sample", now |-> now, ret |-> SampleRet(r.err),
                                        tracker_ok |-> res.ok, step |-> r.step, err |-> r.err,
                                        acts |-> tl.acts, now_live |-> r.now_live,
                                        changes |-> res.changes, sampled |-> r.sampled,
                                        repeat |-> FALSE]
                            /\ IF r.err # "ok"
                               THEN /\ live_threads' = r.live
                                    /\ UNCHANGED dead_threads
                               ELSE \E order \in Orderings(DeadSet(DOMAIN live_threads, r.now_live)) :
                                      LET m == MoveDead(order, r.live, dead_threads, now)
                                      IN  /\ live_threads' = m.live
                                          /\ dead_threads' = m.dead
  /\ UNCHANGED << start_time, first_act, end_time, phase, profile, notified, pdbVars >>

\* mutant of Drained: the map is iterated and not drained
DrainedKeeps(live) == live

\* mutant of DrainDead: the drained samplers are notified and dropped
DrainDeadDrops(order, live, dead, t) == dead

\* notify_dead, line 160: the map after drain()
Drained(live) == EmptyMap

\* mutant of DrainDead: every sampler of dead_threads is notified, the ones that
\* were there before the call as well
RECURSIVE DrainDeadRenotifies(_, _, _, _)
DrainDeadRenotifies(order, live, dead, t) ==
  IF order = << >> THEN [i \in DOMAIN dead |-> ThreadProfiler_notify_dead(dead[i], t)]
  ELSE DrainDeadRenotifies(Tail(order), live, Append(dead, live[Head(order)]), t)

\* notify_dead, lines 160-163
RECURSIVE DrainDead(_, _, _, _)
DrainDead(order, live, dead, t) ==
  IF order = << >> THEN dead
  ELSE DrainDead(Tail(order), live,
                 Append(dead, ThreadProfiler_notify_dead(live[Head(order)], t)), t)

\* TaskProfiler::notify_dead(end_time)
NotifyDead ==
  /\ phase = "active"
  /\ pc = "driver"
  /\ \E t \in { clock, clock + 1 } \cap Times :
       /\ clock' = t
       /\ end_time' = Some(t)
       /\ \E order \in Orderings(DOMAIN live_threads) :
            dead_threads' = DrainDead(order, live_threads, dead_threads, t)
       /\ live_threads' = Drained(live_threads)
       /\ call' = [NoCall EXCEPT !.op = "notify_dead", !.now = t,
                                 !.repeat = (call.op = "notify_dead" /\ call.now = t)]
       /\ notified' = Some(t)
  /\ UNCHANGED << start_time, first_act, libs, executable_lib, created, phase, pc, profile,
                  reported, pdbVars >>

\* Path::new(&file).file_name()
FileName(file) == file[Len(file)]

\* into_profile, lines 187-195
ProfileThreads(order, live, dead) ==
  [i \in 1 .. (Len(order) + Len(dead)) |->
     into_profile_thread(IF i <= Len(order) THEN live[order[i]] ELSE dead[i - Len(order)])]

\* mutant of ProfileEndTime: the end instant is not made relative to the start
ProfileEndTimeAbsolute(et, st) == et

\* into_profile, lines 197-199
ProfileEndTime(et, st) == IF et # NoneOpt THEN Some(et[1] - st) ELSE NoneOpt

\* into_profile, lines 210-216: the add_lib call for one DyldInfo, if any
AddLib(lib) ==
  IF lib.uuid # NoneOpt /\ lib.arch # NoneOpt
  THEN << [name |-> FileName(lib.file), path |-> lib.file, uuid |-> lib.uuid[1],
           arch |-> lib.arch[1], start |-> lib.address, end |-> lib.address + lib.vmsize] >>
  ELSE << >>

\* into_profile, lines 201-217
RECURSIVE ProfileLibs(_)
ProfileLibs(ls) ==
  IF ls = << >> THEN << >> ELSE AddLib(Head(ls)) \o ProfileLibs(Tail(ls))

\* TaskProfiler::into_profile(subtasks); subtasks are counted, not modelled
IntoProfile ==
  /\ phase = "active"
  /\ pc = "driver"
  /\ \E order \in Orderings(DOMAIN live_threads), n \in 0 .. MaxSubtasks :
       profile' = Some([start_time |-> start_time,
                        threads |-> ProfileThreads(order, live_threads, dead_threads),
                        end_time |-> ProfileEndTime(end_time, start_time),
                        libs |-> ProfileLibs(libs),
                        subprocesses |-> n])
  /\ phase' = "consumed"
  /\ call' = [NoCall EXCEPT !.op = "into_profile", !.now = clock]
  /\ UNCHANGED << start_time, first_act, end_time, live_threads, dead_threads, libs,
                  executable_lib, created, clock, pc, reported, notified, pdbVars >>

\* The sampling driver takes the result of sample and goes on to its next call.
TakeResult ==
  /\ pc = "returned"
  /\ pc' = "driver"
  /\ call' = [NoCall EXCEPT !.op = "sample", !.now = call.now]
  /\ UNCHANGED << start_time, first_act, end_time, live_threads, dead_threads, libs, executable_lib,
                  created, clock, phase, profile, reported, notified, pdbVars >>

\* The thread session: every enumeration and every KernelError at every step;
\* the module tracker fails or reports nothing (the library session has its
\* deltas).
TrackerFew == ChangeResults(0)

Sample == SampleWith(TrackerFew, ThreadListResults, KernelErrors)

Next == Sample \/ TakeResult \/ NotifyDead \/ IntoProfile

Spec == Init /\ [][Next]_vars

\* The library session: every delta of at most MaxDelta modifications, for a
\* task that shows no profileable thread; the enumeration succeeds, or fails in
\* the way that makes sample return false, or in one that makes it return an
\* error.
ThreadListsFew ==
  { tl \in ThreadListResults :
      tl.acts = << >> /\ tl.err \in {"ok", "InvalidArgument", "Failure"} }

SampleLibs == SampleWith(ChangeResults(MaxDelta), ThreadListsFew, {"Failure"})

InitLibs == Init /\ live_threads = EmptyMap

NextLibs == SampleLibs \/ TakeResult \/ NotifyDead \/ IntoProfile

SpecLibs == InitLibs /\ [][NextLibs]_vars

\* The tick session: one sample call from the module tracker to the thread
\* samplers. The tracker fails, reports nothing, or reports one library; the
\* enumeration lists at most one thread; every KernelError at every step.
TrackerOne ==
  { r \in ChangeResults(1) : \A i \in DOMAIN r.changes : r.changes[i].lib.file = <<"usr", "b">> }

ThreadListsOne == { tl \in ThreadListResults : Len(tl.acts) <= 1 }

SampleTick == SampleWith(TrackerOne, ThreadListsOne, KernelErrors)

NextTick == SampleTick \/ TakeResult \/ NotifyDead \/ IntoProfile

SpecTick == InitLibs /\ [][NextTick]_vars

\* ------------------------------------------------------------------ Addr2LineContext
\* A line record (pdb::LineInfo): its offset translated to an RVA, its optional
\* length, its file index and line. bad marks the position at which the lazy
\* sequence fails instead of yielding a record.
LineInfo(rva, length, file_index, line_start) ==
  [rva |-> rva, length |-> length, file_index |-> file_index,
   line_start |-> line_start, bad |-> FALSE]
BadLine == [rva |-> 0, length |-> NoneOpt, file_index |-> 0, line_start |-> 0, bad |-> TRUE]

\* A symbol record of a module's symbol stream, as symbol.parse() sees it:
\* Procedure (offset.to_rva() in rva, len, and the line records
\* lines_at_offset(offset) yields), InlineSite (inlinee id, and the line records
\* inlinee.lines(proc_offset, site) yields), "Other" (any other variant, or a
\* record that does not parse), or "Corrupt" (the symbol iterator fails here).
Procedure(name, rva, len, lines) ==
  [kind |-> "Procedure", name |-> name, rva |-> rva, len |-> len, inlinee |-> 0, lines |-> lines]
InlineSite(inlinee, lines) ==
  [kind |-> "InlineSite", name |-> "", rva |-> NoneOpt, len |-> 0, inlinee |-> inlinee, lines |-> lines]
OtherSymbol ==
  [kind |-> "Other", name |-> "", rva |-> NoneOpt, len |-> 0, inlinee |-> 0, lines |-> << >>]
CorruptSymbol ==
  [kind |-> "Corrupt", name |-> "", rva |-> NoneOpt, len |-> 0, inlinee |-> 0, lines |-> << >>]

\* the symbol records the snapshots are built from
Symbols ==
  { Procedure("f", Some(0), 2, << LineInfo(0, NoneOpt, 1, 10) >>),
    Procedure("g", Some(1), 2, << LineInfo(1, NoneOpt, 1, 20), BadLine >>),
    Procedure("z", Some(2), 0, << >>),
    Procedure("n", NoneOpt, 3, << >>),
    InlineSite(7, << LineInfo(0, Some(2), 2, 30) >>),
    InlineSite(8, << LineInfo(0, NoneOpt, 2, 40), LineInfo(1, Some(1), 3, 41), BadLine >>),
    InlineSite(9, << LineInfo(0, Some(3), 1, 50) >>),
    OtherSymbol,
    CorruptSymbol }

\* the ids of the module's inlinee table (module_info.inlinees())
Inlinees == {7, 8}

\* the line program's file table: file index -> name
FileTable == << "a.c", "b.c" >>

\* the reads of find_frames that fail on a malformed database
Malformations ==
  {"none", "modules", "module_info", "symbols", "line_program", "inlinees", "symbols_at"}

\* a module of the debug information: info is FALSE when pdb.module_info yields
\* None (no symbol stream)
ModuleInfos(n) ==
  { [info |-> TRUE, symbols |-> syms] : syms \in SeqsUpTo(Symbols, n) }
    \cup { [info |-> FALSE, symbols |-> << >>] }

Addresses == 0 .. MaxAddress

\* Result<Vec<Frame>>
Ok(frames) == [ok |-> TRUE, frames |-> frames]
Err == [ok |-> FALSE, frames |-> << >>]

\* TypeFormatter::write_function / write_id: the display name
FormatFunction(name) == << "fn", name >>
FormatId(inlinee) == << "inlinee", inlinee >>

Reverse(s) == [i \in DOMAIN s |-> s[Len(s) + 1 - i]]

\* line_info_to_location, lines 251-269
line_info_to_location(line_info) ==
  [file |-> IF line_info.file_index \in DOMAIN FileTable
            THEN Some(FileTable[line_info.file_index]) ELSE NoneOpt,
   line |-> Some(line_info.line_start)]

\* mutant of LineNoSizeFrom: the end of a record's range is taken as inside
RECURSIVE LineNoSizeFromInclusive(_, _, _, _)
LineNoSizeFromInclusive(lines, i, address, outer_end_rva) ==
  IF i > Len(lines) THEN NoneOpt
  ELSE IF lines[i].bad THEN NoneOpt
  ELSE IF i + 1 <= Len(lines) /\ lines[i + 1].bad THEN NoneOpt
  ELSE LET start_rva == lines[i].rva
           end_rva == IF i + 1 <= Len(lines) THEN lines[i + 1].rva ELSE outer_end_rva
       IN  IF start_rva <= address /\ address <= end_rva THEN Some(lines[i])
           ELSE LineNoSizeFromInclusive(lines, i + 1, address, outer_end_rva)

\* find_line_info_containing_address_no_size, lines 209-230, from record i on:
\* record i ends where record i + 1 starts, the last one at outer_end_rva; the
\* zipped iterators stop the search when reading record i or i + 1 fails.
RECURSIVE LineNoSizeFrom(_, _, _, _)
LineNoSizeFrom(lines, i, address, outer_end_rva) ==
  IF i > Len(lines) THEN NoneOpt
  ELSE IF lines[i].bad THEN NoneOpt
  ELSE IF i + 1 <= Len(lines) /\ lines[i + 1].bad THEN NoneOpt
  ELSE LET start_rva == lines[i].rva
           end_rva == IF i + 1 <= Len(lines) THEN lines[i + 1].rva ELSE outer_end_rva
       IN  IF start_rva <= address /\ address < end_rva THEN Some(lines[i])
           ELSE LineNoSizeFrom(lines, i + 1, address, outer_end_rva)

find_line_info_containing_address_no_size(lines, address, outer_end_rva) ==
  LineNoSizeFrom(lines, 1, address, outer_end_rva)

\* find_line_info_containing_address_with_size, lines 232-249, from record i on
RECURSIVE LineWithSizeFrom(_, _, _)
LineWithSizeFrom(lines, i, address) ==
  IF i > Len(lines) THEN NoneOpt
  ELSE IF lines[i].bad THEN NoneOpt
  ELSE IF lines[i].length = NoneOpt THEN LineWithSizeFrom(lines, i + 1, address)
  ELSE LET start_rva == lines[i].rva
           end_rva == start_rva + lines[i].length[1]
       IN  IF start_rva <= address /\ address < end_rva THEN Some(lines[i])
           ELSE LineWithSizeFrom(lines, i + 1, address)

find_line_info_containing_address_with_size(lines, address) ==
  LineWithSizeFrom(lines, 1, address)

\* frames_for_address_for_inline_symbol, lines 175-207: Option<Frame>
frames_for_address_for_inline_symbol(site, address) ==
  IF site.inlinee \notin Inlinees THEN NoneOpt
  ELSE LET line_info == find_line_info_containing_address_with_size(site.lines, address)
       IN  IF line_info = NoneOpt THEN NoneOpt
           ELSE Some([function |-> Some(FormatId(site.inlinee)),
                      location |-> Some(line_info_to_location(line_info[1]))])

\* mutant of ProcedureCovers: the end of the range is taken as inside
ProcedureCoversInclusive(symbol, address) ==
  /\ symbol.kind = "Procedure"
  /\ symbol.rva # NoneOpt
  /\ symbol.rva[1] <= address
  /\ address <= symbol.rva[1] + symbol.len

\* find_frames, lines 59-67: the procedure symbol covers the address
ProcedureCovers(symbol, address) ==
  /\ symbol.kind = "Procedure"
  /\ symbol.rva # NoneOpt
  /\ symbol.rva[1] <= address
  /\ address < symbol.rva[1] + symbol.len

\* find_frames, lines 57-71: find_map over the module's symbols from position i
\* on; index is 0 when no procedure covers the address.
RECURSIVE FindProcSymbol(_, _, _)
FindProcSymbol(symbols, i, address) ==
  IF i > Len(symbols) THEN [err |-> FALSE, index |-> 0]
  ELSE IF symbols[i].kind = "Corrupt" THEN [err |-> TRUE, index |-> 0]
  ELSE IF ProcedureCovers(symbols[i], address) THEN [err |-> FALSE, index |-> i]
  ELSE FindProcSymbol(symbols, i + 1, address)

\* find_frames_from_procedure, lines 110-136: the frame of the procedure itself
ProcedureFrame(proc, address) ==
  LET line_info == find_line_info_containing_address_no_size(
                     proc.lines, address, proc.rva[1] + proc.len)
  IN  [function |-> Some(FormatFunction(proc.name)),
       location |-> IF line_info # NoneOpt THEN Some(line_info_to_location(line_info[1]))
                    ELSE NoneOpt]

\* mutant of InlineWalk: the walk goes on past the next Procedure symbol
RECURSIVE InlineWalkPastProcedure(_, _, _, _)
InlineWalkPastProcedure(symbols, i, address, frames) ==
  IF i > Len(symbols) THEN Ok(frames)
  ELSE IF symbols[i].kind = "Corrupt" THEN Err
  ELSE IF symbols[i].kind = "InlineSite"
       THEN InlineWalkPastProcedure(symbols, i + 1, address,
              frames \o frames_for_address_for_inline_symbol(symbols[i], address))
       ELSE InlineWalkPastProcedure(symbols, i + 1, address, frames)

\* find_frames_from_procedure, lines 143-165: the walk over the symbols from
\* position i on, pushing onto frames (outside to inside)
RECURSIVE InlineWalk(_, _, _, _)
InlineWalk(symbols, i, address, frames) ==
  IF i > Len(symbols) THEN Ok(frames)
  ELSE IF symbols[i].kind = "Corrupt" THEN Err
  ELSE IF symbols[i].kind = "Procedure" THEN Ok(frames)
  ELSE IF symbols[i].kind = "InlineSite"
       THEN InlineWalk(symbols, i + 1, address,
              frames \o frames_for_address_for_inline_symbol(symbols[i], address))
       ELSE InlineWalk(symbols, i + 1, address, frames)

\* mutant of OrderFrames: the list is returned as built, outside to inside
OrderFramesAsBuilt(frames) == frames

\* find_frames_from_procedure, lines 167-172: inside to outside
OrderFrames(frames) == Reverse(frames)

\* find_frames_from_procedure, lines 96-173
find_frames_from_procedure(address, symbols, symbol_index, malformed) ==
  IF malformed = "symbols_at" THEN Err
  ELSE LET walked == InlineWalk(symbols, symbol_index + 1, address,
                       << ProcedureFrame(symbols[symbol_index], address) >>)
       IN  IF walked.ok THEN Ok(OrderFrames(walked.frames)) ELSE Err

\* find_frames, lines 56-92: the loop over the modules from position i on
RECURSIVE FindInModules(_, _, _, _)
FindInModules(modules, i, address, malformed) ==
  IF i > Len(modules) THEN Ok(<< >>)
  ELSE IF malformed = "module_info" THEN Err
  ELSE IF ~modules[i].info THEN FindInModules(modules, i + 1, address, malformed)
  ELSE IF malformed = "symbols" THEN Err
  ELSE LET found == FindProcSymbol(modules[i].symbols, 1, address)
       IN  IF found.err THEN Err
           ELSE IF found.index = 0 THEN FindInModules(modules, i + 1, address, malformed)
           ELSE IF malformed \in {"line_program", "inlinees"} THEN Err
           ELSE find_frames_from_procedure(address, modules[i].symbols, found.index, malformed)

\* mutant of find_frames: a failed lookup is turned into an empty list
find_frames_or_empty(snapshot, address) ==
  IF snapshot.malformed = "modules" THEN Ok(<< >>)
  ELSE LET r == FindInModules(snapshot.modules, 1, address, snapshot.malformed)
       IN  IF r.ok THEN r ELSE Ok(<< >>)

\* find_frames, lines 43-93
find_frames(snapshot, address) ==
  IF snapshot.malformed = "modules" THEN Err
  ELSE FindInModules(snapshot.modules, 1, address, snapshot.malformed)

\* the TaskProfiler of the constructor, untouched
TaskIdle ==
  /\ start_time = 1
  /\ first_act = NoneOpt
  /\ clock = 1
  /\ end_time = NoneOpt
  /\ live_threads = EmptyMap
  /\ dead_threads = << >>
  /\ created = 0
  /\ libs = << >>
  /\ executable_lib = NoneOpt
  /\ phase = "active"
  /\ pc = "driver"
  /\ call = NoCall
  /\ profile = NoneOpt
  /\ reported = [added |-> {}, removed |-> {}]
  /\ notified = NoneOpt

\* The debug database behind the context: the DBI stream lists no, one or two
\* modules, holding at most MaxSyms symbol records in all.
InitPdb ==
  /\ TaskIdle
  /\ \E malformed \in Malformations :
       \/ pdb = [modules |-> << >>, malformed |-> malformed]
       \/ \E m1 \in ModuleInfos(MaxSyms) :
            pdb = [modules |-> << m1 >>, malformed |-> malformed]
       \/ \E m1 \in ModuleInfos(MaxSyms) :
            \E m2 \in ModuleInfos(MaxSyms - Len(m1.symbols)) :
              pdb = [modules |-> << m1, m2 >>, malformed |-> malformed]
  /\ query = NoQuery
  /\ search = NoSearch

\* one call of Addr2LineContext::find_frames(pdb, address)
FindFrames ==
  /\ ~query.asked
  /\ \E address \in Addresses :
       LET r == find_frames(pdb, address)
       IN  query' = [asked |-> TRUE, address |-> address, ok |-> r.ok, frames |-> r.frames]
  /\ UNCHANGED << pdb, search, taskVars >>

NextPdb == FindFrames

SpecPdb == InitPdb /\ [][NextPdb]_vars

TypeOK ==
  /\ start_time \in StartTimes
  /\ clock \in Times
  /\ Len(end_time) <= 1
  /\ DOMAIN live_threads \subseteq Handles
  /\ \A h \in DOMAIN live_threads : live_threads[h].thread_act = h
  /\ created \in 0 .. MaxSamplers
  /\ Len(libs) <= MaxLibs
  /\ phase \in {"active", "consumed"}
  /\ pc \in {"driver", "returned"}


\* The line search on its own: a lazy sequence of at most MaxLines unsized line
\* records, each read yielding a record with a start RVA or failing; record i
\* carries line i, so that equal starts stay apart.
LineSequences ==
  UNION { { [i \in 1 .. n |-> IF starts[i] = -1 THEN BadLine
                               ELSE LineInfo(starts[i], NoneOpt, 1, i)]
            : starts \in [1 .. n -> Addresses \cup {-1}] }
          : n \in 0 .. MaxLines }

InitLines ==
  /\ TaskIdle
  /\ pdb = NoPdb
  /\ query = NoQuery
  /\ \E lines \in LineSequences, address \in Addresses,
        outer_end_rva \in 0 .. (MaxAddress + 1) :
       search = [asked |-> FALSE, lines |-> lines, address |-> address,
                 outer_end_rva |-> outer_end_rva, found |-> NoneOpt]

\* one call of find_line_info_containing_address_no_size
FindLine ==
  /\ ~search.asked
  /\ search' = [search EXCEPT
                  !.asked = TRUE,
                  !.found = find_line_info_containing_address_no_size(
                              search.lines, search.address, search.outer_end_rva)]
  /\ UNCHANGED << pdb, query, taskVars >>

NextLines == FindLine

SpecLines == InitLines /\ [][NextLines]_vars

\* ------------------------------------------------------------------ claims
LiveIds == { live_threads[h].id : h \in DOMAIN live_threads }
DeadIds == { dead_threads[i].id : i \in DOMAIN dead_threads }
DeadHandles == { dead_threads[i].thread_act : i \in DOMAIN dead_threads }
SampleReturned(r) == pc = "returned" /\ call.ret = r
IsPrefix(s, t) == Len(s) <= Len(t) /\ \A i \in DOMAIN s : s[i] = t[i]

\* C1 as stated: once a sampler for handle H is in dead_threads, no step makes
\* H a key of live_threads.
C1_NeverLiveAgain ==
  [][\A h \in DeadHandles : h \notin DOMAIN live_threads']_vars

\* C1, amended: once a sampler is in dead_threads, that sampler is never a value
\* of live_threads again and stays in dead_threads; its handle H becomes a key of
\* live_threads again only in a sample call whose thread enumeration lists H, and
\* then with a sampler newly constructed in that call.
C1_DeadSamplerStaysDead ==
  [][\A i \in DOMAIN dead_threads :
       LET t == dead_threads[i]
           h == t.thread_act
       IN  /\ t.id \notin { live_threads'[x].id : x \in DOMAIN live_threads' }
           /\ i \in DOMAIN dead_threads' /\ dead_threads'[i] = t
           /\ (h \notin DOMAIN live_threads /\ h \in DOMAIN live_threads')
                => /\ call'.op = "sample"
                   /\ h \in Range(call'.acts)
                   /\ live_threads'[h].id > created
                   /\ live_threads'[h].id <= created']_vars

\* C1 witness: a handle whose sampler died is a key of live_threads again,
\* with another sampler.
C1_Witness ==
  \E i \in DOMAIN dead_threads :
    /\ dead_threads[i].thread_act \in DOMAIN live_threads
    /\ live_threads[dead_threads[i].thread_act].id # dead_threads[i].id
    /\ call.op = "sample"

\* C2 as stated: after sample returns true, no handle is both a key of
\* live_threads and the handle of a sampler in dead_threads.
C2_HandlesDisjoint ==
  SampleReturned("true") => DOMAIN live_threads \cap DeadHandles = {}

\* C2, amended: after sample returns true, no sampler is in live_threads and in
\* dead_threads at the same time, and no handle whose sampler this call moved to
\* dead_threads is a key of live_threads; a handle is a key of live_threads and
\* the handle of a dead sampler only with a live sampler constructed later than
\* the dead one.
C2_SamplersDisjoint ==
  SampleReturned("true") =>
    /\ LiveIds \cap DeadIds = {}
    /\ \A i \in DOMAIN dead_threads :
         LET t == dead_threads[i]
         IN  /\ t.deaths = << call.now >> => t.thread_act \notin DOMAIN live_threads
             /\ t.thread_act \in DOMAIN live_threads
                  => live_threads[t.thread_act].id > t.id

\* C2 witness: sample returned true having moved a sampler to dead_threads,
\* while an older dead sampler's handle is live again.
C2_Witness ==
  /\ SampleReturned("true")
  /\ \E i \in DOMAIN dead_threads : dead_threads[i].deaths = << call.now >>
  /\ DOMAIN live_threads \cap DeadHandles # {}

\* the number of positions of s that hold sampler id
Occurrences(s, id) == Cardinality({ i \in DOMAIN s : s[i] = id })
DeadIdSeq == [i \in DOMAIN dead_threads |-> dead_threads[i].id]

\* C3: every sampler ever constructed is held exactly once, in live_threads or
\* in dead_threads; right after notify_dead live_threads is empty and each is in
\* dead_threads exactly once; and into_profile adds exactly one profile thread
\* per sampler ever constructed.
C3_EverySamplerKept ==
  /\ \A id \in 1 .. created :
       Occurrences(DeadIdSeq, id) + Cardinality({ h \in DOMAIN live_threads : live_threads[h].id = id }) = 1
  /\ call.op = "notify_dead" =>
       /\ DOMAIN live_threads = {}
       /\ Len(dead_threads) = created
       /\ \A id \in 1 .. created : Occurrences(DeadIdSeq, id) = 1
  /\ profile # NoneOpt =>
       /\ Len(profile[1].threads) = created
       /\ \A id \in 1 .. created :
            Occurrences([k \in DOMAIN profile[1].threads |-> profile[1].threads[k].sampler], id) = 1

\* C3 witness: notify_dead, then into_profile, after a sample call that
\* constructed a sampler and a sample call that returned an error.
C3_Witness ==
  /\ profile # NoneOpt
  /\ notified # NoneOpt
  /\ DOMAIN live_threads = {}
  /\ Len(profile[1].threads) = MaxSamplers
  /\ \E k \in DOMAIN profile[1].threads :
       ~profile[1].threads[k].is_main /\ profile[1].threads[k].sampler = MaxSamplers

\* what C4 says sample returns when `step` fails with `err`
C4_Expected(step, err) ==
  IF err = "ok" THEN "true"
  ELSE IF step = "task_threads" /\ err = "InvalidArgument" THEN "false"
  ELSE IF err \in {"MachSendInvalidDest", "Terminated"} THEN "false"
  ELSE err

\* C4: sample returns false when thread enumeration fails with invalid argument
\* and when enumeration, ThreadProfiler::new or thread.sample fails with invalid
\* destination or terminated; it returns the error when one of them fails with
\* any other error (invalid argument from new or sample included); it returns
\* true otherwise, whether or not the module tracker failed.
C4_SampleOutcome ==
  pc = "returned" =>
    /\ call.ret = C4_Expected(call.step, call.err)
    /\ (call.err = "ok") = (call.step = "none")

\* C4 witness: ThreadProfiler::new or thread.sample failed with invalid argument.
C4_Witness ==
  /\ pc = "returned"
  /\ call.step \in {"new", "sample"}
  /\ call.err = "InvalidArgument"

\* C5: in a sample call that returns true, every handle that was a key of
\* live_threads and is absent from the enumeration is no key any more, its
\* sampler is appended to dead_threads with one death notice, at `now`, the
\* earlier dead_threads being kept in place; and every handle reported alive is a
\* key of live_threads.
C5_AbsentThreadsDie ==
  [][(call'.op = "sample" /\ call'.ret = "true") =>
       /\ IsPrefix(dead_threads, dead_threads')
       /\ \A h \in DOMAIN live_threads :
            h \notin Range(call'.acts) =>
              /\ h \notin DOMAIN live_threads'
              /\ \E i \in (Len(dead_threads) + 1) .. Len(dead_threads') :
                   dead_threads'[i] =
                     [live_threads[h] EXCEPT !.deaths = live_threads[h].deaths \o << call'.now >>]
       /\ \A h \in call'.now_live :
            h \in DOMAIN live_threads' /\ live_threads'[h].deaths = << >>]_vars

\* C5 witness: sample returned true, a sampler whose handle was not enumerated
\* was moved to dead_threads in this call, and another thread is live.
C5_Witness ==
  /\ SampleReturned("true")
  /\ \E i \in DOMAIN dead_threads :
       /\ dead_threads[i].deaths = << call.now >>
       /\ dead_threads[i].thread_act \notin Range(call.acts)
  /\ call.now_live # {}

\* the add_lib call C6 expects for a library with UUID and arch
C6_Entry(lib) ==
  [name |-> lib.file[2], path |-> lib.file, uuid |-> Head(lib.uuid), arch |-> Head(lib.arch),
   start |-> lib.address, end |-> lib.address + lib.vmsize]

\* C6: a library the module tracker reported as Added is in the assembled
\* profile, with the range [address, address + vmsize), if and only if it has both
\* a UUID and an arch, whether or not it was reported Removed later; and the
\* profile holds no other library.
C6_LibsInProfile ==
  profile # NoneOpt =>
    /\ \A lib \in reported.added :
         IF lib.uuid # NoneOpt /\ lib.arch # NoneOpt
         THEN C6_Entry(lib) \in Range(profile[1].libs)
         ELSE \A e \in Range(profile[1].libs) : e.path # lib.file
    /\ \A e \in Range(profile[1].libs) : \E lib \in reported.added : e.path = lib.file

\* C6 witness: the profile of a session in which a library with UUID and arch
\* was reported Added and Removed, and a library without UUID was reported Added.
C6_Witness ==
  /\ profile # NoneOpt
  /\ \E lib \in reported.added \cap reported.removed : lib.uuid # NoneOpt /\ lib.arch # NoneOpt
  /\ \E lib \in reported.added : lib.uuid = NoneOpt

\* C7: into_profile sets an end time if and only if notify_dead was called, and
\* it is the last notify_dead argument minus start_time; when into_profile
\* directly follows notify_dead(t), the end time is t - start_time and the thread
\* list holds every sampler constructed in the session, each notified of death.
C7_EndTime ==
  [][(phase = "active" /\ phase' = "consumed") =>
       LET p == profile'[1]
       IN  /\ p.end_time = IF notified = NoneOpt THEN NoneOpt
                           ELSE Some(notified[1] - start_time)
           /\ p.start_time = start_time
           /\ call.op = "notify_dead" =>
                /\ p.end_time = Some(call.now - start_time)
                /\ { p.threads[k].sampler : k \in DOMAIN p.threads } = 1 .. created
                /\ \A k \in DOMAIN p.threads : p.threads[k].end # << >>]_vars

\* C7 witness: the profile of a session that ended with notify_dead at an
\* instant after start_time, with two threads.
C7_Witness ==
  /\ profile # NoneOpt
  /\ profile[1].end_time # NoneOpt
  /\ profile[1].end_time[1] > 0
  /\ Len(profile[1].threads) >= 2
  /\ \A k \in DOMAIN profile[1].threads : profile[1].threads[k].end # << >>


\* the symbol is a Procedure whose offset translates and whose half-open RVA
\* range holds the address
C8_InRange(symbol, address) ==
  /\ symbol.kind = "Procedure"
  /\ symbol.rva # NoneOpt
  /\ address \in symbol.rva[1] .. (symbol.rva[1] + symbol.len - 1)

\* some module of the snapshot holds such a Procedure symbol
C8_Covered(snapshot, address) ==
  \E m \in DOMAIN snapshot.modules :
    \E i \in DOMAIN snapshot.modules[m].symbols :
      C8_InRange(snapshot.modules[m].symbols[i], address)

C9_Module(snapshot, address) ==
  CHOOSE m \in DOMAIN snapshot.modules :
    /\ \E i \in DOMAIN snapshot.modules[m].symbols :
         C8_InRange(snapshot.modules[m].symbols[i], address)
    /\ \A k \in 1 .. (m - 1) : \A i \in DOMAIN snapshot.modules[k].symbols :
         ~C8_InRange(snapshot.modules[k].symbols[i], address)
C9_Index(symbols, address) ==
  CHOOSE i \in DOMAIN symbols :
    /\ C8_InRange(symbols[i], address)
    /\ \A k \in 1 .. (i - 1) : ~C8_InRange(symbols[k], address)

\* the positions of the inline sites after position i, up to the next Procedure
\* symbol, that yield a frame for the address
C9_Sites(symbols, i, address) ==
  { j \in (i + 1) .. Len(symbols) :
      /\ symbols[j].kind = "InlineSite"
      /\ \A k \in (i + 1) .. j : symbols[k].kind # "Procedure"
      /\ frames_for_address_for_inline_symbol(symbols[j], address) # NoneOpt }

\* the k-th smallest element of the set of numbers S
C9_Nth(S, k) == CHOOSE x \in S : Cardinality({ y \in S : y <= x }) = k

\* C9: in every non-empty result the last frame is the frame of the matched
\* procedure (the first covering procedure of the first module that has one),
\* and the frames before it are those of the covering inline sites, the site
\* occurring last in the symbol sequence first.
C9_ProcedureLast ==
  (query.asked /\ query.ok /\ query.frames # << >>) =>
    LET symbols == pdb.modules[C9_Module(pdb, query.address)].symbols
        i == C9_Index(symbols, query.address)
        sites == C9_Sites(symbols, i, query.address)
        n == Cardinality(sites)
    IN  /\ Len(query.frames) = n + 1
        /\ query.frames[n + 1].function = Some(<< "fn", symbols[i].name >>)
        /\ query.frames[n + 1] = ProcedureFrame(symbols[i], query.address)
        /\ \A k \in 1 .. n :
             query.frames[k] =
               frames_for_address_for_inline_symbol(
                 symbols[C9_Nth(sites, n + 1 - k)], query.address)[1]

\* C9 witness: a procedure and two covering inline sites: three frames, the
\* later site's first.
C9_Witness ==
  /\ query.asked /\ query.ok
  /\ Len(query.frames) = 3
  /\ query.frames[1].function = Some(<< "inlinee", 8 >>)
  /\ query.frames[2].function = Some(<< "inlinee", 7 >>)
  /\ query.frames[3].function = Some(<< "fn", "f" >>)

\* a read of find_frames certainly fails: module enumeration; module_info of a
\* module; the symbol stream of a module that has one; the line program, the
\* inlinee table or the symbol iterator after a covering procedure was found; or
\* a symbol record that makes the iteration fail while nothing covers the address
C10_ReadFails(snapshot, address) ==
  \/ snapshot.malformed = "modules"
  \/ snapshot.malformed = "module_info" /\ snapshot.modules # << >>
  \/ snapshot.malformed = "symbols" /\ \E m \in DOMAIN snapshot.modules : snapshot.modules[m].info
  \/ /\ snapshot.malformed \in {"line_program", "inlinees", "symbols_at"}
     /\ C8_Covered(snapshot, address)
  \/ /\ ~C8_Covered(snapshot, address)
     /\ \E m \in DOMAIN snapshot.modules : \E i \in DOMAIN snapshot.modules[m].symbols :
          snapshot.modules[m].symbols[i].kind = "Corrupt"

C11_ExitedNotLive ==
  SampleReturned("true") => DOMAIN live_threads \subseteq call.now_live

\* the libraries of the Added modifications of a delta, in delta order
RECURSIVE AddedLibs(_)
AddedLibs(changes) ==
  IF changes = << >> THEN << >>
  ELSE (IF Head(changes).kind = "Added" THEN << Head(changes).lib >> ELSE << >>)
         \o AddedLibs(Tail(changes))

\* C12: in every sample call, whatever it returns (true, false or an error, the
\* failure being in the thread enumeration, in ThreadProfiler::new or in
\* thread.sample), the Added modules of the tick's delta have been appended to
\* libs and an executable one has set executable_lib if it was unset.
C12_DeltasBeforeThreads ==
  [][(pc = "driver" /\ pc' = "returned") =>
       /\ libs' = libs \o AddedLibs(call'.changes)
       /\ (\E i \in DOMAIN call'.changes :
             call'.changes[i].kind = "Added" /\ call'.changes[i].lib.is_executable)
            => executable_lib' # NoneOpt]_vars

\* C12 witness: a sample call whose delta added a library returned false or an
\* error because a thread sampler failed, and the library is in libs.
C12_Witness ==
  /\ pc = "returned"
  /\ call.ret # "true"
  /\ call.step \in {"new", "sample"}
  /\ AddedLibs(call.changes) # << >>
  /\ libs # << >>
  /\ executable_lib # NoneOpt

\* C13: libs only grows by appending. In every step the old libs is a prefix of
\* the new one; a sample call appends the Added modules of its delta in delta
\* order and nothing else; a delta without Added modules (Removed only, or
\* empty) and a failed check_for_changes leave libs and executable_lib as they
\* were; notify_dead and into_profile leave them as they were.
C13_LibsAppendOnly ==
  [][/\ IsPrefix(libs, libs')
     /\ (pc = "driver" /\ pc' = "returned") =>
          /\ libs' = libs \o AddedLibs(call'.changes)
          /\ (AddedLibs(call'.changes) = << >> \/ ~call'.tracker_ok) =>
               (libs' = libs /\ executable_lib' = executable_lib)
     /\ ~(pc = "driver" /\ pc' = "returned") =>
          (libs' = libs /\ executable_lib' = executable_lib)]_vars

\* C13 witness: one delta added two different libraries to a non-empty libs, and
\* they are its last two entries, in delta order.
C13_Witness ==
  /\ pc = "returned"
  /\ Len(call.changes) = 2
  /\ call.changes[1].kind = "Added" /\ call.changes[2].kind = "Added"
  /\ call.changes[1].lib # call.changes[2].lib
  /\ Len(libs) = 2
  /\ libs = << call.changes[1].lib, call.changes[2].lib >>

\* the first executable library of a sequence of libraries, if any
RECURSIVE FirstExecutable(_)
FirstExecutable(ls) ==
  IF ls = << >> THEN NoneOpt
  ELSE IF Head(ls).is_executable THEN Some(Head(ls))
  ELSE FirstExecutable(Tail(ls))

\* C14: executable_lib is unset while libs holds no executable library, is
\* otherwise the earliest executable library of libs, and once set it never
\* changes.
C14_FirstExecutable ==
  [][/\ executable_lib = FirstExecutable(libs)
     /\ executable_lib' = FirstExecutable(libs')
     /\ executable_lib # NoneOpt => executable_lib' = executable_lib]_vars

\* C14 witness: libs holds two executable libraries and executable_lib is the
\* earlier one, after a Removed delta was reported for it.
C14_Witness ==
  /\ Len(libs) = 2
  /\ libs[1].is_executable /\ libs[2].is_executable
  /\ libs[1] # libs[2]
  /\ executable_lib = Some(libs[1])
  /\ libs[1] \in reported.removed

\* the samplers held in live_threads or dead_threads that are flagged main
MainSamplers ==
  { live_threads[h] : h \in { x \in DOMAIN live_threads : live_threads[x].is_main } }
    \cup { dead_threads[i] : i \in { j \in DOMAIN dead_threads : dead_threads[j].is_main } }

\* C15: at every point at most one sampler of live_threads and dead_threads is
\* flagged main, and it is the sampler the constructor built for the first
\* handle of its thread enumeration; every sampler constructed in a sample call
\* is not flagged main, whatever its handle.
C15_OneMain ==
  [][/\ Cardinality(MainSamplers) <= 1
     /\ \A t \in MainSamplers : first_act = Some(t.thread_act) /\ t.id = 1
     /\ \A h \in DOMAIN live_threads' :
          live_threads'[h].id > created => ~live_threads'[h].is_main
     /\ \A i \in DOMAIN dead_threads' :
          dead_threads'[i].id > created => ~dead_threads'[i].is_main]_vars

\* C15 witness: the main sampler is in dead_threads and its handle is live
\* again, with a sampler that is not flagged main.
C15_Witness ==
  \E i \in DOMAIN dead_threads :
    /\ dead_threads[i].is_main
    /\ dead_threads[i].thread_act \in DOMAIN live_threads
    /\ ~live_threads[dead_threads[i].thread_act].is_main
    /\ Cardinality(DOMAIN live_threads) = 2

\* C16: the records the search can read up to and including the end of record
\* i: record i and, if there is one, record i + 1
C16_Readable(lines, i) ==
  \A k \in 1 .. (IF i < Len(lines) THEN i + 1 ELSE i) : ~lines[k].bad

\* e_i: the start of record i + 1, or outer_end_rva for the last record
C16_End(lines, i, outer_end_rva) ==
  IF i < Len(lines) THEN lines[i + 1].rva ELSE outer_end_rva

\* the records i with s_i <= address < e_i that the sequence yields, with their
\* end, before it fails
C16_Matches(lines, address, outer_end_rva) ==
  { i \in DOMAIN lines :
      /\ C16_Readable(lines, i)
      /\ lines[i].rva <= address
      /\ address < C16_End(lines, i, outer_end_rva) }

\* C16: the search returns the first record i with s_i <= address < e_i, where
\* e_i is the start of record i + 1 and outer_end_rva for the last record; it
\* returns none when no record matches, when the sequence is empty and when the
\* sequence fails before a match is found; and when the starts are
\* non-decreasing at most one record matches.
C16_FirstImplicitEnd ==
  search.asked =>
    LET lines == search.lines
        M == C16_Matches(lines, search.address, search.outer_end_rva)
    IN  /\ M = {} => search.found = NoneOpt
        /\ M # {} => search.found = Some(lines[C9_Nth(M, 1)])
        /\ ((\A i \in DOMAIN lines : ~lines[i].bad)
              /\ (\A i, j \in DOMAIN lines : i <= j => lines[i].rva <= lines[j].rva))
             => Cardinality(M) <= 1

\* C16 witness: three records with starts out of order, two of which match; the
\* search returns the earlier one.
C16_Witness ==
  /\ search.asked
  /\ Len(search.lines) = 3
  /\ Cardinality(C16_Matches(search.lines, search.address, search.outer_end_rva)) = 2
  /\ search.found # NoneOpt
  /\ search.found[1].line_start = 1

\* the InlineSite symbol has its inlinee in the module's inlinee table and
\* yields, before its line-record sequence fails, a record with a length whose
\* range [rva, rva + length) holds the address
C17_SiteCovers(site, address) ==
  /\ site.kind = "InlineSite"
  /\ site.inlinee \in Inlinees
  /\ \E r \in DOMAIN site.lines :
       /\ \A q \in 1 .. r : ~site.lines[q].bad
       /\ site.lines[r].length # NoneOpt
       /\ site.lines[r].rva <= address
       /\ address < site.lines[r].rva + site.lines[r].length[1]

\* k: the number of such sites after position i and before the next Procedure
\* symbol
C17_K(symbols, i, address) ==
  Cardinality({ j \in (i + 1) .. Len(symbols) :
                  /\ C17_SiteCovers(symbols[j], address)
                  /\ \A q \in (i + 1) .. j : symbols[q].kind # "Procedure" })

\* C17 as stated: for an address inside a procedure, find_frames returns
\* exactly 1 + k frames.
C17_OnePlusK ==
  (query.asked /\ C8_Covered(pdb, query.address)) =>
    LET symbols == pdb.modules[C9_Module(pdb, query.address)].symbols
    IN  /\ query.ok
        /\ Len(query.frames) = 1 + C17_K(symbols, C9_Index(symbols, query.address), query.address)

\* C17, amended: for an address inside a procedure, whenever find_frames
\* returns a list and not an error, the list holds exactly 1 + k frames, k being
\* the number of InlineSite symbols after the matched procedure symbol and
\* before the next Procedure symbol whose inlinee is in the inlinee table and
\* which yield a line record with a length whose range holds the address.
C17_OnePlusKWhenOk ==
  (query.asked /\ query.ok /\ C8_Covered(pdb, query.address)) =>
    LET symbols == pdb.modules[C9_Module(pdb, query.address)].symbols
    IN  Len(query.frames) = 1 + C17_K(symbols, C9_Index(symbols, query.address), query.address)

\* C17 witness: exactly one frame is returned for a procedure that is followed
\* by another Procedure symbol and then by an inline site covering the address.
C17_Witness ==
  /\ query.asked /\ query.ok
  /\ Len(query.frames) = 1
  /\ \E m \in DOMAIN pdb.modules :
       LET symbols == pdb.modules[m].symbols
       IN  /\ Len(symbols) = 3
           /\ C8_InRange(symbols[1], query.address)
           /\ symbols[2].kind = "Procedure"
           /\ C17_SiteCovers(symbols[3], query.address)

\* C18: a notify_dead(end_time) directly after a notify_dead with the same
\* end_time leaves live_threads empty, dead_threads with the same samplers in
\* the same order, end_time the same, and gives no sampler a second death
\* notice.
C18_SecondNotifyDead ==
  [][(call.op = "notify_dead" /\ call'.op = "notify_dead" /\ call'.now = call.now) =>
       /\ live_threads = EmptyMap /\ live_threads' = EmptyMap
       /\ dead_threads' = dead_threads
       /\ end_time' = end_time
       /\ \A i \in DOMAIN dead_threads' : Len(dead_threads'[i].deaths) = 1]_vars

\* C18 witness: a second notify_dead with the same end_time has returned, with
\* samplers that the first one drained.
C18_Witness ==
  /\ call.op = "notify_dead" /\ call.repeat
  /\ Len(dead_threads) >= 2
  /\ \E i \in DOMAIN dead_threads : dead_threads[i].deaths = << call.now >>

\* the death notices the sampler `id` has received, in a map and a list of
\* samplers (none for a sampler that is in neither)
C19_Deaths(live, dead, id) ==
  IF \E h \in DOMAIN live : live[h].id = id
  THEN (live[CHOOSE h \in DOMAIN live : live[h].id = id]).deaths
  ELSE IF \E i \in DOMAIN dead : dead[i].id = id
       THEN (dead[CHOOSE i \in DOMAIN dead : dead[i].id = id]).deaths
       ELSE << >>

\* C19: over any sequence of sample and notify_dead calls, a sampler receives a
\* death notice exactly at the step that moves it from live_threads into
\* dead_threads, and so at most once; a sampler in live_threads has received
\* none; a sample call samples no sampler that is in dead_threads.
C19_NotifiedOnceWhenMoved ==
  [][/\ \A id \in 1 .. created' :
          LET before == C19_Deaths(live_threads, dead_threads, id)
              after  == C19_Deaths(live_threads', dead_threads', id)
              moved  == id \in LiveIds /\ id \in DeadIds' /\ id \notin LiveIds'
          IN  /\ (after # before) <=> moved
              /\ moved => (before = << >> /\ after = << call'.now >>)
              /\ Len(after) <= 1
     /\ \A h \in DOMAIN live_threads' : live_threads'[h].deaths = << >>
     /\ \A i \in DOMAIN dead_threads' : Len(dead_threads'[i].deaths) = 1
     /\ (pc = "driver" /\ pc' = "returned") => call'.sampled \cap DeadIds = {}]_vars

\* C19 witness: a sample call has sampled a live sampler while dead_threads
\* holds a sampler moved by an earlier sample call and one drained by
\* notify_dead at another instant.
C19_Witness ==
  /\ pc = "returned"
  /\ call.sampled \cap LiveIds # {}
  /\ \E i, j \in DOMAIN dead_threads :
       /\ dead_threads[i].deaths # dead_threads[j].deaths
       /\ notified # NoneOpt
       /\ dead_threads[j].deaths = << notified[1] >>
       /\ dead_threads[i].deaths[1] < notified[1]

\* C20: a sample call that returns false or an error leaves dead_threads and
\* end_time as they were and removes no key from live_threads: every sampler
\* that was live is still live under its key, and the keys gained hold samplers
\* constructed in this call; when the failure is in the thread enumeration
\* live_threads is unchanged as well.
C20_FailedSampleKeeps ==
  [][(pc = "driver" /\ pc' = "returned" /\ call'.ret # "true") =>
       /\ dead_threads' = dead_threads
       /\ end_time' = end_time
       /\ DOMAIN live_threads \subseteq DOMAIN live_threads'
       /\ \A h \in DOMAIN live_threads : live_threads'[h] = live_threads[h]
       /\ \A h \in DOMAIN live_threads' \ DOMAIN live_threads :
            live_threads'[h].id \in (created + 1) .. created'
       /\ call'.step = "task_threads" => live_threads' = live_threads]_vars

\* C20 witness: a sample call has failed at a sampler that was live before it,
\* after it had constructed the sampler of a new thread.
C20_Witness ==
  /\ pc = "returned"
  /\ call.ret \notin {"true", "false"}
  /\ call.step = "sample"
  /\ Len(call.acts) = 2
  /\ Cardinality(DOMAIN live_threads) = 2
  /\ live_threads[call.acts[1]].id = created
  /\ live_threads[call.acts[2]].id < created
  /\ live_threads[call.acts[2]].id \in call.sampled
  /\ dead_threads # << >>

====
